---- MODULE Spec2Model ----
(***************************************************************************)
(* Model of the IMGBE main loop (src/src/program.cpp): runMainLoop,        *)
(* handleEvents, handleKeyboard, requestExit, createEmuSystem and          *)
(* loadEmuSystem, driving an EmuSys controller.  The EmuSys class          *)
(* (emu/emusys.hpp) is not part of the sources at hand; its operations are *)
(* modelled from the design document (spec.md, section 4.3).               *)
(***************************************************************************)
EXTENDS Integers, Sequences, FiniteSets, TLC

\* Number of host input events the environment delivers during one run.
MaxEvents == 4

\* SDL events the loop reacts to.  A file drop is split by what the dropped
\* path is: no such file, a file that is no cartridge, a loadable ROM.
\* "OTHER" is any key that handleKeyboard sends to its default branch.
DropEvents == {"DROP_MISSING", "DROP_CORRUPT", "DROP_VALID"}
KeyEvents == {"ESC", "F3", "F5", "F9", "OTHER"}
Events == {"QUIT"} \cup DropEvents \cup KeyEvents

VARIABLES
    pc,             \* position of runMainLoop
    exitRequested,  \* program.cpp:19
    emuSystem,      \* program.cpp:25, the pointer and the object behind it
    queue,          \* the SDL event queue
    arrived,        \* events delivered so far
    quitSeen,       \* history: an SDL_QUIT event has been polled
    site,           \* history: the step that ran last
    ev,             \* history: the event that step handled, "" if none
    pre,            \* history: emuSystem before that step
    calls,          \* history: EmuSys operations that step invoked, in order
    logs,           \* history: severities that step logged, in order
    faults,         \* history: exceptions raised during that step
    adv,            \* history: frames that step completed
    frameCalls      \* history: runFrame() invocations in this iteration

loopVars == <<pc, exitRequested, emuSystem, queue, arrived, quitSeen, site, ev,
              pre, calls, logs, faults, adv, frameCalls>>

\* The frame pacing of one iteration (program.cpp:36, 54-66), on its own.
VARIABLES
    ppc,            \* position in the iteration: "work", "measured", "slept"
    elapsed,        \* end_time - start_time, in performance-counter ticks
    delay           \* the argument of SDL_Delay, in milliseconds

paceVars == <<ppc, elapsed, delay>>

\* One MemoryBank object (emu/memorybank.hpp) and its last call.
VARIABLES
    bank,           \* the object: bounds, storage, lock flags
    bprev,          \* history: the object before the last call
    bop,            \* history: the last call, its arguments and its outcome
    shadow,         \* history: per address, the last value written unlocked
    snap,           \* history: storage when the write lock was last set
    ctor            \* history: arguments of the successful construction

bankVars == <<bank, bprev, bop, shadow, snap, ctor>>

vars == <<loopVars, paceVars, bankVars>>

----------------------------------------------------------------------------
\* EmuSys, the emulated system controller (spec.md 4.3).

\* EmuSys* emuSystem = nullptr: no object.
NoSystem == [exists |-> FALSE, running |-> FALSE, paused |-> FALSE,
             loaded |-> FALSE]

\* new EmuSys(): Unloaded, neither running nor paused.
NewEmuSys == [exists |-> TRUE, running |-> FALSE, paused |-> FALSE,
              loaded |-> FALSE]

isRunning(s) == s.running

isPaused(s) == s.paused

start(s) == [s EXCEPT !.running = TRUE]

stop(s) == [s EXCEPT !.running = FALSE]

pause(s) == [s EXCEPT !.paused = TRUE]

resume(s) == [s EXCEPT !.paused = FALSE]

togglePause(s) == IF isPaused(s) THEN resume(s) ELSE pause(s)

\* loadROM(path) raises when the path does not exist or is no cartridge and
\* then leaves the controller stopped with any previous ROM unloaded.
loadROM(s, path) ==
    IF path = "DROP_VALID"
    THEN [sys |-> [stop(s) EXCEPT !.loaded = TRUE], threw |-> FALSE]
    ELSE [sys |-> [stop(s) EXCEPT !.loaded = FALSE], threw |-> TRUE]

\* runFrame() advances one frame when running; fault: it raises instead.
runFrame(s, fault) ==
    [sys |-> s, threw |-> fault,
     adv |-> IF isRunning(s) /\ ~fault THEN 1 ELSE 0]

\* step(true) executes one instruction; fault: it raises instead.
step(s, fault) == [sys |-> s, threw |-> fault]

----------------------------------------------------------------------------
\* program.cpp

\* What a handler did: the controller afterwards, the operations invoked,
\* the log entries, the exceptions raised, the frames completed, and whether
\* an exception left the handler.
Result(s, c, l, f, a, e) ==
    [sys |-> s, calls |-> c, logs |-> l, faults |-> f, adv |-> a,
     escaped |-> e]

std_filesystem_exists(path) == path # "DROP_MISSING"

createEmuSystem(s) == IF ~s.exists THEN NewEmuSys ELSE s

\* loadEmuSystem without the stop() of line 274.
loadEmuSystem_NoStop(s, path) ==
    LET l0 == IF ~std_filesystem_exists(path) THEN <<"LOG_ERRORS">> ELSE <<>>
        c0 == IF ~s.exists THEN <<"new">> ELSE <<>>
        s1 == createEmuSystem(s)
        r  == [sys |-> [s1 EXCEPT !.loaded = (path = "DROP_VALID")],
               threw |-> path # "DROP_VALID"]
    IN  IF r.threw
        THEN Result(r.sys, c0 \o <<"loadROM">>,
                    l0 \o <<"LOG_ERRORS">>, 1, 0, FALSE)
        ELSE Result(start(r.sys), c0 \o <<"loadROM", "start">>,
                    l0, 0, 0, FALSE)

loadEmuSystem(s, path) ==
    LET l0 == IF ~std_filesystem_exists(path) THEN <<"LOG_ERRORS">> ELSE <<>>
        c0 == IF ~s.exists THEN <<"new">> ELSE <<>>
        s1 == createEmuSystem(s)
        s2 == stop(s1)
        r  == loadROM(s2, path)
    IN  IF r.threw
        THEN Result(r.sys, c0 \o <<"stop", "loadROM">>,
                    l0 \o <<"LOG_ERRORS">>, 1, 0, FALSE)
        ELSE Result(start(r.sys), c0 \o <<"stop", "loadROM", "start">>,
                    l0, 0, 0, FALSE)

\* The Esc case without the emuSystem != nullptr test of line 137.
handleKeyboardEscape_NoNullCheck(s) ==
    Result(togglePause(s), <<"togglePause">>, <<>>, 0, 0, FALSE)

handleKeyboardEscape(s) ==
    IF s.exists
    THEN Result(togglePause(s), <<"togglePause">>, <<>>, 0, 0, FALSE)
    ELSE Result(s, <<>>, <<>>, 0, 0, FALSE)

\* The F3 case without its try/catch: the exception leaves handleKeyboard.
handleKeyboardF3_NoCatch(s, fault) ==
    IF s.exists /\ isPaused(s)
    THEN LET r == step(s, fault)
         IN  Result(r.sys, <<"step">>, <<>>, IF r.threw THEN 1 ELSE 0, 0,
                    r.threw)
    ELSE Result(s, <<>>, <<>>, 0, 0, FALSE)

\* The F3 case without the isPaused() test of line 147.
handleKeyboardF3_NoGate(s, fault) ==
    IF s.exists
    THEN LET r == step(s, fault)
         IN  IF r.threw
             THEN Result(r.sys, <<"step">>, <<"LOG_ERRORS">>, 1, 0, FALSE)
             ELSE Result(r.sys, <<"step">>, <<>>, 0, 0, FALSE)
    ELSE Result(s, <<>>, <<>>, 0, 0, FALSE)

handleKeyboardF3(s, fault) ==
    IF s.exists /\ isPaused(s)
    THEN LET r == step(s, fault)
         IN  IF r.threw
             THEN Result(r.sys, <<"step">>, <<"LOG_ERRORS">>, 1, 0, FALSE)
             ELSE Result(r.sys, <<"step">>, <<>>, 0, 0, FALSE)
    ELSE Result(s, <<>>, <<>>, 0, 0, FALSE)

handleKeyboardF5(s, fault) ==
    IF s.exists /\ isPaused(s)
    THEN LET s1 == resume(s)
             r  == runFrame(s1, fault)
         IN  IF r.threw
             THEN Result(r.sys, <<"resume", "runFrame">>, <<"LOG_ERRORS">>,
                         1, r.adv, FALSE)
             ELSE Result(pause(r.sys), <<"resume", "runFrame", "pause">>,
                         <<>>, 0, r.adv, FALSE)
    ELSE Result(s, <<>>, <<>>, 0, 0, FALSE)

\* The F9 case advancing a frame after resuming.
handleKeyboardF9_RunsFrame(s) ==
    IF s.exists /\ isPaused(s)
    THEN Result(resume(s), <<"resume", "runFrame">>, <<>>, 0, 1, FALSE)
    ELSE Result(s, <<>>, <<>>, 0, 0, FALSE)

handleKeyboardF9(s) ==
    IF s.exists /\ isPaused(s)
    THEN Result(resume(s), <<"resume">>, <<>>, 0, 0, FALSE)
    ELSE Result(s, <<>>, <<>>, 0, 0, FALSE)

handleKeyboard(s, key, fault) ==
    CASE key = "ESC" -> handleKeyboardEscape(s)
      [] key = "F3"  -> handleKeyboardF3(s, fault)
      [] key = "F5"  -> handleKeyboardF5(s, fault)
      [] key = "F9"  -> handleKeyboardF9(s)
      [] OTHER       -> Result(s, <<>>, <<>>, 0, 0, FALSE)

\* The frame advance of the loop body, lines 40-49.
runMainLoopFrame(s, fault) ==
    IF s.exists /\ isRunning(s)
    THEN LET r == runFrame(s, fault)
         IN  IF r.threw
             THEN Result(r.sys, <<"runFrame">>, <<"LOG_DEBUG">>, 1, r.adv,
                         FALSE)
             ELSE Result(r.sys, <<"runFrame">>, <<>>, 0, r.adv, FALSE)
    ELSE Result(s, <<>>, <<>>, 0, 0, FALSE)

\* The teardown deleting the controller without dumping it first.
runMainLoopExit_NoDump(s) ==
    IF s.exists
    THEN Result(s, <<"delete">>, <<"LOG_INFO">>, 0, 0, FALSE)
    ELSE Result(s, <<>>, <<"LOG_INFO">>, 0, 0, FALSE)

\* The teardown after the loop, lines 69-75.
runMainLoopExit(s) ==
    IF s.exists
    THEN Result(s, <<"dumpSystem", "delete">>, <<"LOG_INFO">>, 0, 0, FALSE)
    ELSE Result(s, <<>>, <<"LOG_INFO">>, 0, 0, FALSE)

\* A loop condition that is false from the start.
LoopCond_Never(e) == FALSE

\* The condition of while(!exitRequested).
LoopCond(e) == ~e

\* requestExit flipping the flag instead of setting it.
requestExit_Toggle(e) == ~e

\* requestExit()
requestExit(e) == TRUE

Count(seq, x) == Cardinality({i \in DOMAIN seq : seq[i] = x})

----------------------------------------------------------------------------
\* Frame pacing, program.cpp:20 and 54-66.

\* double frameRate = 60
frameRate == 60

\* SDL_GetPerformanceFrequency(): counter ticks per second (microseconds).
PerformanceFrequency == 1000000

\* Measured work times are multiples of TickStep ticks, up to MaxElapsed.
TickStep == 250
MaxElapsed == 100

\* The argument of SDL_Delay for a work time of t ticks.  The code compares
\* seconds_elapsed = t / frequency with 1 / frameRate and, when smaller,
\* passes floor((1000 / frameRate) - seconds_elapsed), else 0; both are
\* computed here exactly, over the common denominator.
PacingDelay(t) ==
    IF t * frameRate < PerformanceFrequency
    THEN (1000 * PerformanceFrequency - frameRate * t)
            \div (frameRate * PerformanceFrequency)
    ELSE 0

----------------------------------------------------------------------------
\* MemoryBank, emu/memorybank.hpp.  Only the declarations and their
\* documentation are at hand; the bodies follow spec.md 4.1.

\* Addresses and byte values the calls are tried with.
MaxAddr == 2
MaxByte == 1

Addrs == 0..MaxAddr
Bytes == 0..MaxByte

NoBank == [constructed |-> FALSE, startAddress |-> 0, endAddress |-> 0,
           data |-> <<>>, readLocked |-> FALSE, writeLocked |-> FALSE]

NoCall == [op |-> "none", a |-> 0, b |-> 0, ret |-> 0, threw |-> "none"]

Call(op, a, b, ret, threw) ==
    [op |-> op, a |-> a, b |-> b, ret |-> ret, threw |-> threw]

Zeros(n) == [i \in 1..n |-> 0]

InRange(m, address) == m.startAddress <= address /\ address <= m.endAddress

\* The constructor allocating one byte too few.
MemoryBank_OneShort(startAddress, endAddress, read_locked, write_locked) ==
    IF startAddress > endAddress
    THEN [obj |-> NoBank, threw |-> "invalid_argument"]
    ELSE [obj |-> [constructed |-> TRUE, startAddress |-> startAddress,
                   endAddress |-> endAddress,
                   data |-> Zeros(endAddress - startAddress),
                   readLocked |-> read_locked, writeLocked |-> write_locked],
          threw |-> "none"]

MemoryBank(startAddress, endAddress, read_locked, write_locked) ==
    IF startAddress > endAddress
    THEN [obj |-> NoBank, threw |-> "invalid_argument"]
    ELSE [obj |-> [constructed |-> TRUE, startAddress |-> startAddress,
                   endAddress |-> endAddress,
                   data |-> Zeros(endAddress - startAddress + 1),
                   readLocked |-> read_locked, writeLocked |-> write_locked],
          threw |-> "none"]

\* readByte answering the read lock before looking at the address.
readByte_LockFirst(m, address) ==
    IF m.readLocked
    THEN [obj |-> m, ret |-> 0, threw |-> "none"]
    ELSE IF ~InRange(m, address)
    THEN [obj |-> m, ret |-> 0, threw |-> "out_of_range"]
    ELSE [obj |-> m, ret |-> m.data[address - m.startAddress + 1],
          threw |-> "none"]

readByte(m, address) ==
    IF ~InRange(m, address)
    THEN [obj |-> m, ret |-> 0, threw |-> "out_of_range"]
    ELSE IF m.readLocked
    THEN [obj |-> m, ret |-> 0, threw |-> "none"]
    ELSE [obj |-> m, ret |-> m.data[address - m.startAddress + 1],
          threw |-> "none"]

\* writeByte storing at the neighbouring cell (index one too low, wrapping).
writeByte_OffByOne(m, address, value) ==
    IF ~InRange(m, address)
    THEN [obj |-> m, threw |-> "out_of_range"]
    ELSE IF m.writeLocked
    THEN [obj |-> m, threw |-> "none"]
    ELSE [obj |-> [m EXCEPT !.data[IF address = m.startAddress
                                   THEN Len(m.data)
                                   ELSE address - m.startAddress] = value],
          threw |-> "none"]

\* writeByte ignoring the write lock.
writeByte_IgnoresLock(m, address, value) ==
    IF ~InRange(m, address)
    THEN [obj |-> m, threw |-> "out_of_range"]
    ELSE [obj |-> [m EXCEPT !.data[address - m.startAddress + 1] = value],
          threw |-> "none"]

\* writeByte also discarding the write while the bank is read-locked.
writeByte_BlockedByReadLock(m, address, value) ==
    IF ~InRange(m, address)
    THEN [obj |-> m, threw |-> "out_of_range"]
    ELSE IF m.writeLocked \/ m.readLocked
    THEN [obj |-> m, threw |-> "none"]
    ELSE [obj |-> [m EXCEPT !.data[address - m.startAddress + 1] = value],
          threw |-> "none"]

writeByte(m, address, value) ==
    IF ~InRange(m, address)
    THEN [obj |-> m, threw |-> "out_of_range"]
    ELSE IF m.writeLocked
    THEN [obj |-> m, threw |-> "none"]
    ELSE [obj |-> [m EXCEPT !.data[address - m.startAddress + 1] = value],
          threw |-> "none"]

isReadLocked(m) == m.readLocked

isWriteLocked(m) == m.writeLocked

setReadLocked(m, value) == [m EXCEPT !.readLocked = value]

setWriteLocked(m, value) == [m EXCEPT !.writeLocked = value]

getStartAddress(m) == m.startAddress

getEndAddress(m) == m.endAddress

----------------------------------------------------------------------------
LoopPcs == {"check", "events", "frame", "render"}

Init ==
    /\ pc = "check"
    /\ exitRequested = FALSE
    /\ emuSystem = NoSystem
    /\ queue = <<>>
    /\ arrived = 0
    /\ quitSeen = FALSE
    /\ site = "init"
    /\ ev = ""
    /\ pre = NoSystem
    /\ calls = <<>>
    /\ logs = <<"LOG_INFO">>
    /\ faults = 0
    /\ adv = 0
    /\ frameCalls = 0
    /\ ppc = "work"
    /\ elapsed = 0
    /\ delay = 0
    /\ bank = NoBank
    /\ bprev = NoBank
    /\ bop = NoCall
    /\ shadow = <<>>
    /\ snap = <<>>
    /\ ctor = [startAddress |-> 0, endAddress |-> 0]

\* The host posts an input event.
Arrive ==
    /\ pc \in LoopPcs
    /\ arrived < MaxEvents
    /\ \E e \in Events : queue' = Append(queue, e)
    /\ arrived' = arrived + 1
    /\ UNCHANGED <<pc, exitRequested, emuSystem, quitSeen, site, ev, pre,
                   calls, logs, faults, adv, frameCalls>>
    /\ UNCHANGED <<paceVars, bankVars>>

\* Applies the outcome r of the step named st that handled event e.
Apply(st, e, r, nextpc) ==
    /\ emuSystem' = r.sys
    /\ pre' = emuSystem
    /\ site' = st
    /\ ev' = e
    /\ calls' = r.calls
    /\ logs' = r.logs
    /\ faults' = r.faults
    /\ adv' = r.adv
    /\ frameCalls' = frameCalls + Count(r.calls, "runFrame")
    /\ pc' = IF r.escaped THEN "terminated" ELSE nextpc
    /\ UNCHANGED <<paceVars, bankVars>>

\* while(!exitRequested), line 34: a new iteration starts.
LoopEnter ==
    /\ pc = "check"
    /\ LoopCond(exitRequested)
    /\ pc' = "events"
    /\ site' = "enter"
    /\ ev' = ""
    /\ pre' = emuSystem
    /\ calls' = <<>>
    /\ logs' = <<>>
    /\ faults' = 0
    /\ adv' = 0
    /\ frameCalls' = 0
    /\ UNCHANGED <<exitRequested, emuSystem, queue, arrived, quitSeen>>
    /\ UNCHANGED <<paceVars, bankVars>>

\* The loop is left, lines 69-75.
LoopExit ==
    /\ pc = "check"
    /\ ~LoopCond(exitRequested)
    /\ Apply("exit", "", runMainLoopExit(emuSystem), "done")
    /\ UNCHANGED <<exitRequested, queue, arrived, quitSeen>>

\* handleEvents, case SDL_QUIT.
HandleQuit ==
    /\ pc = "events"
    /\ queue # <<>>
    /\ Head(queue) = "QUIT"
    /\ queue' = Tail(queue)
    /\ exitRequested' = requestExit(exitRequested)
    /\ quitSeen' = TRUE
    /\ Apply("quit", "QUIT", Result(emuSystem, <<>>, <<"LOG_INFO">>, 0, 0,
                                    FALSE), "events")
    /\ UNCHANGED arrived

\* handleEvents, case SDL_DROPFILE.
HandleDrop ==
    /\ pc = "events"
    /\ queue # <<>>
    /\ Head(queue) \in DropEvents
    /\ queue' = Tail(queue)
    /\ Apply("drop", Head(queue), loadEmuSystem(emuSystem, Head(queue)),
             "events")
    /\ UNCHANGED <<exitRequested, arrived, quitSeen>>

\* handleEvents, case SDL_KEYDOWN.
HandleKey ==
    /\ pc = "events"
    /\ queue # <<>>
    /\ Head(queue) \in KeyEvents
    /\ queue' = Tail(queue)
    /\ \E fault \in BOOLEAN :
          Apply("key", Head(queue),
                handleKeyboard(emuSystem, Head(queue), fault), "events")
    /\ UNCHANGED <<exitRequested, arrived, quitSeen>>

\* SDL_PollEvent returns 0: handleEvents returns.
DrainDone ==
    /\ pc = "events"
    /\ queue = <<>>
    /\ Apply("drained", "", Result(emuSystem, <<>>, <<>>, 0, 0, FALSE),
             "frame")
    /\ UNCHANGED <<exitRequested, queue, arrived, quitSeen>>

\* Lines 40-49.
LoopFrame ==
    /\ pc = "frame"
    /\ \E fault \in BOOLEAN :
          Apply("loop", "", runMainLoopFrame(emuSystem, fault), "render")
    /\ UNCHANGED <<exitRequested, queue, arrived, quitSeen>>

\* windowClear, windowUpdate and the pacing delay, lines 51-66.
Render ==
    /\ pc = "render"
    /\ Apply("render", "", Result(emuSystem, <<>>, <<>>, 0, 0, FALSE),
             "check")
    /\ UNCHANGED <<exitRequested, queue, arrived, quitSeen>>

Step ==
    \/ LoopEnter
    \/ LoopExit
    \/ HandleQuit
    \/ HandleDrop
    \/ HandleKey
    \/ DrainDone
    \/ LoopFrame
    \/ Render

Next == Arrive \/ Step

Spec == Init /\ [][Next]_vars

\* The loop's own steps are always taken eventually; the host owes nothing.
FairSpec == Spec /\ WF_vars(Step)

----------------------------------------------------------------------------
\* The pacing of one iteration after another.

\* end_time - start_time, lines 54-57: the work of the iteration took t ticks.
PaceMeasure ==
    /\ ppc = "work"
    /\ \E k \in 0..MaxElapsed : elapsed' = k * TickStep
    /\ ppc' = "measured"
    /\ UNCHANGED <<delay, loopVars, bankVars>>

\* SDL_Delay(...), lines 59-66.
PaceDelay ==
    /\ ppc = "measured"
    /\ delay' = PacingDelay(elapsed)
    /\ ppc' = "slept"
    /\ UNCHANGED <<elapsed, loopVars, bankVars>>

\* The next iteration starts, line 36.
PaceRestart ==
    /\ ppc = "slept"
    /\ ppc' = "work"
    /\ UNCHANGED <<elapsed, delay, loopVars, bankVars>>

PaceNext == PaceMeasure \/ PaceDelay \/ PaceRestart

PaceSpec == Init /\ [][PaceNext]_vars

----------------------------------------------------------------------------
\* Calls on one MemoryBank.

BankConstruct ==
    /\ ~bank.constructed
    /\ \E s \in Addrs, e \in Addrs, rl \in BOOLEAN, wl \in BOOLEAN :
          LET r == MemoryBank(s, e, rl, wl)
          IN  /\ bank' = r.obj
              /\ bop' = Call("construct", s, e, 0, r.threw)
              /\ ctor' = IF r.threw = "none"
                         THEN [startAddress |-> s, endAddress |-> e]
                         ELSE ctor
              /\ shadow' = IF r.threw = "none" THEN [a \in s..e |-> 0]
                           ELSE shadow
              /\ snap' = r.obj.data
    /\ bprev' = bank
    /\ UNCHANGED <<loopVars, paceVars>>

BankRead ==
    /\ bank.constructed
    /\ \E a \in Addrs :
          LET r == readByte(bank, a)
          IN  /\ bank' = r.obj
              /\ bop' = Call("read", a, 0, r.ret, r.threw)
    /\ bprev' = bank
    /\ UNCHANGED <<shadow, snap, ctor, loopVars, paceVars>>

BankWrite ==
    /\ bank.constructed
    /\ \E a \in Addrs, v \in Bytes :
          LET r == writeByte(bank, a, v)
          IN  /\ bank' = r.obj
              /\ bop' = Call("write", a, v, 0, r.threw)
              /\ shadow' = IF a \in DOMAIN shadow /\ ~bank.writeLocked
                           THEN [shadow EXCEPT ![a] = v]
                           ELSE shadow
    /\ bprev' = bank
    /\ UNCHANGED <<snap, ctor, loopVars, paceVars>>

BankSetReadLocked ==
    /\ bank.constructed
    /\ \E value \in BOOLEAN :
          /\ bank' = setReadLocked(bank, value)
          /\ bop' = Call("setReadLocked", IF value THEN 1 ELSE 0, 0, 0, "none")
    /\ bprev' = bank
    /\ UNCHANGED <<shadow, snap, ctor, loopVars, paceVars>>

BankSetWriteLocked ==
    /\ bank.constructed
    /\ \E value \in BOOLEAN :
          /\ bank' = setWriteLocked(bank, value)
          /\ bop' = Call("setWriteLocked", IF value THEN 1 ELSE 0, 0, 0,
                         "none")
          /\ snap' = IF value /\ ~bank.writeLocked THEN bank.data ELSE snap
    /\ bprev' = bank
    /\ UNCHANGED <<shadow, ctor, loopVars, paceVars>>

BankNext ==
    \/ BankConstruct
    \/ BankRead
    \/ BankWrite
    \/ BankSetReadLocked
    \/ BankSetWriteLocked

BankSpec == Init /\ [][BankNext]_vars

----------------------------------------------------------------------------
\* Properties of the main loop.

\* C1: the loop body invokes runFrame() only when a system exists, is running
\* and is not paused; an iteration that finds the system paused advances no
\* frame.
C1_LoopFrameOnlyUnpaused ==
    /\ (site = "loop" /\ Count(calls, "runFrame") > 0)
          => (pre.exists /\ isRunning(pre) /\ ~isPaused(pre))
    /\ (site = "loop" /\ isPaused(pre))
          => (Count(calls, "runFrame") = 0 /\ adv = 0)

\* C2: once a quit event has set exitRequested, no step of the loop (key
\* handler or loop body) invokes runFrame() any more.
C2_NoFrameAfterQuit ==
    exitRequested => Count(calls, "runFrame") = 0

\* C3: whenever the F5 handler returns after having been entered with a
\* paused system, the system is paused, whether runFrame() returned or raised.
C3_StepFrameRePauses ==
    (site = "key" /\ ev = "F5" /\ pre.exists /\ isPaused(pre))
        => isPaused(emuSystem)

\* C4: an exception raised by runFrame() or step() never leaves the handler
\* that made the call: it is logged there (LOG_DEBUG by the loop body,
\* LOG_ERRORS by the key handlers) and the loop goes on from where it was.
C4_FaultsCaughtAndLogged ==
    /\ pc # "terminated"
    /\ (site = "loop" /\ faults > 0) => (logs = <<"LOG_DEBUG">> /\ pc = "render")
    /\ (site = "key" /\ faults > 0)
          => (logs = <<"LOG_ERRORS">> /\ pc = "events" /\ ev \in {"F3", "F5"})

C4_Witness ==
    site = "key" /\ ev = "F3" /\ faults = 1 /\ logs = <<"LOG_ERRORS">>

\* C5: after loadEmuSystem returns from a failed load (missing path or
\* loadROM raised), isRunning() is false whatever the system was before, and
\* start() is invoked only after loadROM returned without error.
C5_FailedLoadNotRunning ==
    site = "drop" =>
        /\ (ev # "DROP_VALID" \/ faults > 0) => ~isRunning(emuSystem)
        /\ Count(calls, "start") > 0
              => (ev = "DROP_VALID" /\ faults = 0
                  /\ calls[Len(calls)] = "start"
                  /\ calls[Len(calls) - 1] = "loadROM")

C5_Witness ==
    /\ site = "drop" /\ ev = "DROP_CORRUPT" /\ faults = 1
    /\ isRunning(pre) /\ isPaused(pre) /\ ~isRunning(emuSystem)

\* C6: a file drop naming a missing path logs a message and does nothing
\* else: the controller is as before, none of stop(), loadROM(), start() is
\* invoked and no controller is created.
C6_MissingPathNoTeardown ==
    (site = "drop" /\ ev = "DROP_MISSING")
        => (logs # <<>> /\ emuSystem = pre /\ calls = <<>>)

\* C7: leaving the loop with a system calls dumpSystem() once and then
\* destroys the controller once, after every frame advance; without a system
\* neither happens; neither happens anywhere but at loop exit.
C7_DumpThenDestroyOnce ==
    /\ pc = "done"
          => /\ site = "exit"
             /\ calls = IF emuSystem.exists THEN <<"dumpSystem", "delete">>
                        ELSE <<>>
    /\ (Count(calls, "dumpSystem") > 0 \/ Count(calls, "delete") > 0)
          => (pc = "done" /\ pre.exists)

C7_Witness ==
    /\ pc = "done" /\ emuSystem.exists /\ isRunning(emuSystem)
    /\ calls = <<"dumpSystem", "delete">>

\* C8: as long as no quit event has been polled the loop is still iterating,
\* whatever events were handled and whatever raised.
C8_ExitOnlyAfterQuit ==
    quitSeen \/ pc \in LoopPcs

C8_Witness ==
    /\ ~quitSeen /\ arrived = MaxEvents /\ queue = <<>>
    /\ site = "loop" /\ faults = 1 /\ pc = "render"

\* C9: exitRequested is never cleared once set, no iteration starts while it
\* is set, the loop is left only from the test at the top of an iteration,
\* and once the flag is set the loop eventually exits.
C9_ExitFlagCooperative ==
    /\ [][exitRequested => (exitRequested' /\ ~(pc = "check" /\ pc' = "events"))]_vars
    /\ [][(pc # "done" /\ pc' = "done") => pc = "check"]_vars
    /\ (exitRequested ~> (pc = "done"))

C9_Witness ==
    exitRequested /\ pc = "render" /\ queue = <<>>

\* C10: an F3 event invokes step(true) exactly once when a system exists and
\* is paused, and otherwise invokes nothing, logs nothing and leaves the
\* controller as it was; step is invoked by nothing else.
C10_StepOnlyWhilePaused ==
    /\ (site = "key" /\ ev = "F3")
          => IF pre.exists /\ isPaused(pre)
             THEN calls = <<"step">>
             ELSE calls = <<>> /\ logs = <<>> /\ emuSystem = pre
    /\ Count(calls, "step") > 0
          => (site = "key" /\ ev = "F3" /\ pre.exists /\ isPaused(pre))

C10_Witness ==
    /\ site = "key" /\ ev = "F3" /\ pre.exists /\ isPaused(pre)
    /\ calls = <<"step">> /\ faults = 0

\* C13: the controller is never paused while stopped or unloaded.
C13_PausedImpliesRunning ==
    isPaused(emuSystem) => isRunning(emuSystem)

\* C19 (as stated): runFrame() is invoked at most once per iteration, key
\* handlers and loop body together.
C19_OneFramePerIteration ==
    frameCalls <= 1

\* C19 (amended): a step of the loop invokes runFrame() at most once, and only
\* the loop body (once per iteration, at its own place) or an F5 key handled
\* on a paused system does; each such step adds one to the iteration's count.
C19_OneFramePerLoopBodyOrStepKey ==
    [][/\ Count(calls', "runFrame") <= 1
       /\ frameCalls' <= frameCalls + 1
       /\ frameCalls' > frameCalls
             => \/ site' = "loop" /\ pc = "frame" /\ pc' = "render"
                \/ site' = "key" /\ ev' = "F5" /\ isPaused(emuSystem)
       /\ (pc = "events" /\ pc' = "events" /\ queue # <<>> /\ queue' # queue
           /\ Head(queue) # "F5")
             => frameCalls' = frameCalls]_vars

C19_Witness ==
    frameCalls = 2 /\ site = "key" /\ ev = "F5" /\ calls[2] = "runFrame"

\* C20: no controller operation is invoked while no controller exists, a
\* controller is created only when none exists (so at most once), and once
\* created it stays until the teardown at loop exit.
C20_SingleOwnership ==
    /\ calls # <<>> => (pre.exists \/ calls[1] = "new")
    /\ Count(calls, "new") <= 1
    /\ Count(calls, "new") = 1 => (~pre.exists /\ site = "drop")
    /\ pre.exists => emuSystem.exists
    /\ (emuSystem.exists /\ ~pre.exists) => calls[1] = "new"
    /\ Count(calls, "delete") > 0 => pc = "done"

C20_Witness ==
    /\ site = "drop" /\ pre.exists /\ emuSystem.exists
    /\ calls = <<"stop", "loadROM", "start">>

----------------------------------------------------------------------------
\* Properties of the frame pacing.

\* C11: the requested sleep is max(0, 1/R - t) to within the millisecond
\* granularity of SDL_Delay: with t ticks of work, delay milliseconds differ
\* from 1/R - t by less than one millisecond when t < 1/R, and are 0 otherwise.
\* (Both sides are scaled by 1000 * frameRate * PerformanceFrequency.)
C11_SleepIsRemainingBudget ==
    ppc = "slept" =>
        IF elapsed * frameRate < PerformanceFrequency
        THEN LET want == 1000 * PerformanceFrequency
                            - 1000 * frameRate * elapsed
                 got  == delay * frameRate * PerformanceFrequency
             IN  /\ got - want < frameRate * PerformanceFrequency
                 /\ want - got < frameRate * PerformanceFrequency
        ELSE delay = 0

\* C12: work time plus requested sleep is at least 1/R seconds:
\* elapsed / frequency + delay / 1000 >= 1 / frameRate.
C12_NeverFasterThanFrameRate ==
    ppc = "slept" =>
        frameRate * (1000 * elapsed + delay * PerformanceFrequency)
            >= 1000 * PerformanceFrequency

----------------------------------------------------------------------------
\* Properties of MemoryBank.

BankIndex(a) == a - bank.startAddress + 1

\* C14: with both locks off, writeByte(a, v) on an in-range address makes
\* readByte(a) return v and leaves every other stored byte as it was.
C14_WriteReadRoundTrip ==
    (/\ bop.op = "write" /\ InRange(bprev, bop.a)
     /\ ~bprev.readLocked /\ ~bprev.writeLocked)
        => /\ bop.threw = "none"
           /\ readByte(bank, bop.a).ret = bop.b
           /\ readByte(bank, bop.a).threw = "none"
           /\ Len(bank.data) = Len(bprev.data)
           /\ \A a \in Addrs :
                 (InRange(bank, a) /\ a # bop.a)
                    => bank.data[BankIndex(a)] = bprev.data[BankIndex(a)]

C14_Witness ==
    /\ bop.op = "write" /\ bop.threw = "none" /\ bop.b = MaxByte
    /\ ~bprev.readLocked /\ ~bprev.writeLocked
    /\ bprev.data[BankIndex(bop.a)] # bop.b
    /\ Len(bank.data) > 1

\* C15: while write-locked, an in-range writeByte raises nothing and changes
\* nothing, so storage (and therefore any unlocked read) is what it was when
\* the lock was set; with the lock off again a write is stored.
C15_WriteLockDiscards ==
    /\ (bop.op = "write" /\ InRange(bprev, bop.a) /\ bprev.writeLocked)
          => (bop.threw = "none" /\ bank = bprev)
    /\ (bank.constructed /\ bank.writeLocked) => bank.data = snap
    /\ (bank.constructed /\ bank.writeLocked /\ ~bank.readLocked)
          => \A a \in Addrs :
                InRange(bank, a)
                   => readByte(bank, a).ret = snap[BankIndex(a)]
    /\ (bop.op = "write" /\ InRange(bprev, bop.a) /\ ~bprev.writeLocked)
          => bank.data[BankIndex(bop.a)] = bop.b

C15_Witness ==
    /\ bop.op = "write" /\ InRange(bprev, bop.a) /\ bprev.writeLocked
    /\ ~bank.readLocked
    /\ bop.b # bprev.data[BankIndex(bop.a)]
    /\ bprev.data[BankIndex(bop.a)] # 0

\* C16: while read-locked, readByte returns 0x00 for every in-range address
\* and never changes the object; what was written with the write lock off,
\* before or during the read lock, is what readByte returns once the read
\* lock is off.
C16_ReadLockReturnsZero ==
    /\ (bank.constructed /\ bank.readLocked)
          => \A a \in Addrs :
                InRange(bank, a)
                   => (readByte(bank, a).ret = 0
                       /\ readByte(bank, a).threw = "none")
    /\ bop.op = "read" => bank = bprev
    /\ (bop.op = "read" /\ InRange(bprev, bop.a) /\ bprev.readLocked)
          => (bop.ret = 0 /\ bop.threw = "none")
    /\ (bank.constructed /\ ~bank.readLocked)
          => \A a \in Addrs :
                InRange(bank, a) => readByte(bank, a).ret = shadow[a]

C16_Witness ==
    /\ bop.op = "read" /\ InRange(bprev, bop.a) /\ bprev.readLocked
    /\ bop.ret = 0 /\ bank.data[BankIndex(bop.a)] # 0

\* C17: for an address outside [startAddress, endAddress], readByte and
\* writeByte raise out_of_range under every combination of the two locks and
\* leave the object unchanged.
C17_OutOfRangeRaises ==
    /\ bank.constructed
          => \A a \in Addrs :
                ~InRange(bank, a)
                   => /\ readByte(bank, a).threw = "out_of_range"
                      /\ readByte(bank, a).obj = bank
                      /\ \A v \in Bytes :
                            /\ writeByte(bank, a, v).threw = "out_of_range"
                            /\ writeByte(bank, a, v).obj = bank
    /\ (bop.op \in {"read", "write"} /\ ~InRange(bprev, bop.a))
          => (bop.threw = "out_of_range" /\ bank = bprev)
    /\ (bop.op \in {"read", "write"} /\ InRange(bprev, bop.a))
          => bop.threw = "none"

C17_Witness ==
    /\ bop.op = "read" /\ bop.threw = "out_of_range"
    /\ bop.a > bank.endAddress /\ bank.readLocked /\ bank.writeLocked

\* C18: construction with startAddress > endAddress fails with
\* invalid_argument; otherwise it yields zeroed storage of exactly
\* endAddress - startAddress + 1 bytes; afterwards the bounds and the storage
\* length stay those given at construction.
C18_ConstructionAndShape ==
    /\ bop.op = "construct"
          => IF bop.a > bop.b
             THEN bop.threw = "invalid_argument" /\ ~bank.constructed
             ELSE /\ bop.threw = "none" /\ bank.constructed
                  /\ bank.data = Zeros(bop.b - bop.a + 1)
    /\ bank.constructed
          => /\ getStartAddress(bank) = ctor.startAddress
             /\ getEndAddress(bank) = ctor.endAddress
             /\ Len(bank.data) = ctor.endAddress - ctor.startAddress + 1
    /\ ~bank.constructed => bop.op \in {"none", "construct"}

C18_Witness ==
    /\ bank.constructed /\ bop.op = "write" /\ bop.threw = "none"
    /\ Len(bank.data) = MaxAddr + 1 /\ bank.data[Len(bank.data)] # 0

TypeOK ==
    /\ pc \in LoopPcs \cup {"done", "terminated"}
    /\ exitRequested \in BOOLEAN
    /\ arrived \in 0..MaxEvents
    /\ Len(queue) <= MaxEvents
====
